---- MODULE Spec2Model ----
(***************************************************************************)
(* Model of the movie pipeline of src/Video_pipeline.py:                   *)
(*   parse_script_to_scenes, render_scene, chunked_export_and_concatenate  *)
(*   and generate_movie_from_script.                                       *)
(*                                                                         *)
(* A script is a sequence of tokens.  NL is a newline character, SP any    *)
(* other whitespace character, WORD a run of non-whitespace characters and *)
(* PHRASE the text of PhraseWords words joined by single spaces (it starts *)
(* and ends with a word character, so a WORD or PHRASE written right       *)
(* against it continues its first or last word).                           *)
(***************************************************************************)
EXTENDS Integers, Sequences, FiniteSets, TLC

\* ------------------------------------------------------------------ bounds
MaxScriptLen == 5
MaxRunLen == 4
MaxClips == 4
MaxTextLen == 2
PhraseWords == 1250

\* --------------------------------------------------------------- constants
MIN_SECONDS == 4
DEFAULT_CHUNK_SECONDS == 900

NL == "nl"
SP == "sp"
WORD == "a"
PHRASE == "P"
Tokens == {NL, SP, WORD, PHRASE}

IsSpace(t) == t \in {NL, SP}

Max(a, b) == IF a >= b THEN a ELSE b

RECURSIVE SeqsUpTo(_, _)
SeqsUpTo(S, n) ==
    IF n = 0 THEN {<<>>}
    ELSE LET shorter == SeqsUpTo(S, n - 1)
         IN shorter \cup {Append(s, x) : s \in {t \in shorter : Len(t) = n - 1}, x \in S}

\* ------------------------------------------------- parse_script_to_scenes
\* str.split("\n\n"): cut at each leftmost, non-overlapping pair of newlines.
RECURSIVE FirstPair(_, _)
FirstPair(s, i) ==
    IF i >= Len(s) THEN 0
    ELSE IF s[i] = NL /\ s[i + 1] = NL THEN i
    ELSE FirstPair(s, i + 1)

RECURSIVE SplitBlank(_)
SplitBlank(s) ==
    LET i == FirstPair(s, 1)
    IN IF i = 0 THEN <<s>>
       ELSE <<SubSeq(s, 1, i - 1)>> \o SplitBlank(SubSeq(s, i + 2, Len(s)))

\* str.strip(): drop leading and trailing whitespace.
RECURSIVE Strip(_)
Strip(s) ==
    IF s = <<>> THEN s
    ELSE IF IsSpace(s[1]) THEN Strip(Tail(s))
    ELSE IF IsSpace(s[Len(s)]) THEN Strip(SubSeq(s, 1, Len(s) - 1))
    ELSE s

\* len(part.split()): the number of maximal runs of non-whitespace characters.
RECURSIVE WordCount(_, _)
WordCount(s, joined) ==
    IF s = <<>> THEN 0
    ELSE IF IsSpace(s[1]) THEN WordCount(Tail(s), FALSE)
    ELSE (IF s[1] = PHRASE THEN PhraseWords ELSE 1)
         - (IF joined THEN 1 ELSE 0)
         + WordCount(Tail(s), TRUE)

Words(s) == WordCount(s, FALSE)

\* A fault variant: the quotient is rounded up instead of truncated.
EstimateSeconds_ceil(words) == Max(MIN_SECONDS, (2 * words + 4) \div 5)

\* max(4, int(words / 2.5))
EstimateSeconds(words) == Max(MIN_SECONDS, (2 * words) \div 5)

MapStrip(parts) == [i \in 1..Len(parts) |-> Strip(parts[i])]

NonEmpty(s) == s # <<>>

\* A fault variant: blank segments are kept.
parse_script_to_scenes_keep_blank(script) ==
    LET raw == MapStrip(SplitBlank(script))
    IN [i \in 1..Len(raw) |->
          [text |-> raw[i], duration |-> EstimateSeconds(Words(raw[i]))]]

parse_script_to_scenes(script) ==
    LET raw == SelectSeq(MapStrip(SplitBlank(script)), NonEmpty)
    IN [i \in 1..Len(raw) |->
          [text |-> raw[i], duration |-> EstimateSeconds(Words(raw[i]))]]

\* ------------------------------------------------------------ render_scene
IMAGE_EXTS == {".jpg", ".jpeg", ".png", ".webp", ".bmp"}
VIDEO_EXTS == {".mp4", ".mov", ".webm", ".mkv", ".avi"}

\* An asset path: its extension and, for a video file, its native duration in
\* hundredths of a second.
Image(ext) == [ext |-> ext, native |-> 0]
Video(ext, n) == [ext |-> ext, native |-> n]

\* The first asset whose extension is recognised (0: none), as the loop with
\* its two breaks finds it.
RECURSIVE FirstUsable(_, _)
FirstUsable(assets, i) ==
    IF i > Len(assets) THEN 0
    ELSE IF assets[i].ext \in IMAGE_EXTS \cup VIDEO_EXTS THEN i
    ELSE FirstUsable(assets, i + 1)

CeilDiv(a, b) == (a + b - 1) \div b

\* times = math.ceil(duration / max(0.1, v.duration))
LoopTimes(duration, native) == CeilDiv(100 * duration, Max(10, native))

\* for a in scene_assets: ... break
PickAsset(scene_assets) == FirstUsable(scene_assets, 1)

\* The visual track: its source, its duration after subclip/set_duration
\* (seconds), the number of copies of the clip and the footage they hold
\* before trimming (hundredths of a second).
VisualTrack(scene_assets, duration) ==
    LET i == PickAsset(scene_assets)
    IN IF i = 0
       THEN [source |-> "fill", length |-> duration, loops |-> 0,
             footage |-> 100 * duration]
       ELSE IF scene_assets[i].ext \in IMAGE_EXTS
       THEN [source |-> "image", length |-> duration, loops |-> 0,
             footage |-> 100 * duration]
       ELSE LET v == scene_assets[i].native
            IN IF v >= 100 * duration
               THEN [source |-> "video", length |-> duration, loops |-> 1,
                     footage |-> v]
               ELSE LET times == LoopTimes(duration, v)
                    IN [source |-> "video", length |-> duration, loops |-> times,
                        footage |-> times * v]

\* duration_override or max(4, int(len(scene_text.split()) / 2.5)); 0 stands
\* for None (both are falsy to `or`).
SceneDuration(scene_text, duration_override) ==
    IF duration_override # 0 THEN duration_override
    ELSE EstimateSeconds(Words(scene_text))

\* A fault variant: the clip keeps the longer of its tracks' lengths.
render_scene_no_set_duration(scene_text, scene_assets, duration_override, audio_len, clock) ==
    LET duration == SceneDuration(scene_text, duration_override)
        track == VisualTrack(scene_assets, duration)
    IN [duration |-> Max(track.length, audio_len), audio |-> audio_len,
        audio_path |-> clock,
        source |-> track.source, visual |-> track.length, loops |-> track.loops,
        footage |-> track.footage]

\* The scene unit: clip.set_audio(audio_clip).set_duration(duration), its
\* audio read from tts_{int(time.time())}.mp3.
render_scene(scene_text, scene_assets, duration_override, audio_len, clock) ==
    LET duration == SceneDuration(scene_text, duration_override)
        track == VisualTrack(scene_assets, duration)
    IN [duration |-> duration, audio |-> audio_len,
        audio_path |-> clock,
        source |-> track.source, visual |-> track.length, loops |-> track.loops,
        footage |-> track.footage]

\* A fault variant: past the end of a pool its last asset is taken.
AssetsForScene_clamped(idx, image_pool, clip_pool) ==
    (IF image_pool # <<>>
     THEN <<image_pool[IF idx < Len(image_pool) THEN idx + 1 ELSE Len(image_pool)]>>
     ELSE <<>>)
    \o (IF clip_pool # <<>>
        THEN <<clip_pool[IF idx < Len(clip_pool) THEN idx + 1 ELSE Len(clip_pool)]>>
        ELSE <<>>)

\* assets_for_scene of generate_movie_from_script (idx counts from 0).
AssetsForScene(idx, image_pool, clip_pool) ==
    (IF image_pool # <<>> THEN <<image_pool[(idx % Len(image_pool)) + 1]>> ELSE <<>>)
    \o (IF clip_pool # <<>> THEN <<clip_pool[(idx % Len(clip_pool)) + 1]>> ELSE <<>>)

\* ------------------------------------------ chunked_export_and_concatenate
\* A fault variant: the group is closed only once it already exceeds the ceiling.
NeedsFlush_late(acc, dur, ceiling, group) == acc > ceiling /\ group # <<>>

\* A fault variant: the group is closed by its size, whatever the durations.
NeedsFlush_by_count(acc, dur, ceiling, group) == Len(group) >= 2

\* A fault variant: the comparison is not strict.
NeedsFlush_nonstrict(acc, dur, ceiling, group) == acc + dur >= ceiling /\ group # <<>>

\* if current_duration + dur > chunk_seconds and current:
NeedsFlush(acc, dur, ceiling, group) == acc + dur > ceiling /\ group # <<>>

\* A fault variant: the part number is not advanced.
NextIdx_stuck(i) == i

\* idx += 1
NextIdx(i) == i + 1

RECURSIVE SumDur(_, _)
SumDur(units, ids) ==
    IF ids = <<>> THEN 0 ELSE units[ids[1]].duration + SumDur(units, Tail(ids))

Range(s) == {s[i] : i \in 1..Len(s)}

\* concatenate_videoclips(current).write_videofile(tmp_file, ...)
PartFile(units, group, state) ==
    [state |-> state, content |-> group, duration |-> SumDur(units, group)]

WriteFile(d, name, file) ==
    [p \in DOMAIN d \cup {name} |-> IF p = name THEN file ELSE d[p]]

RemoveFile(d, name) == [p \in DOMAIN d \ {name} |-> d[p]]

\* concatenate_videoclips(part_clips)
RECURSIVE Concatenate(_)
Concatenate(parts) ==
    IF parts = <<>> THEN [content |-> <<>>, duration |-> 0]
    ELSE LET rest == Concatenate(Tail(parts))
         IN [content |-> parts[1].content \o rest.content,
             duration |-> parts[1].duration + rest.duration]

\* -------------------------------------------------------------------- state
VARIABLES
    mode,             \* entry point: "movie", "export" or "render"
    pc,               \* position in the running function
    script,           \* the script (movie) or the scene text (render)
    images,           \* image pool
    videos,           \* video pool (the `clips` argument of the orchestrator)
    override,         \* duration_override of a direct render_scene call
    scenes,           \* parse_script_to_scenes' result
    scene_clips,      \* the orchestrator's list of scene units
    clips,            \* the exporter's input
    chunk_seconds,    \* the exporter's ceiling
    n,                \* units the exporter's loop has consumed
    current,          \* the running group (indices into clips)
    current_duration,
    temp_paths,       \* part numbers, in flush order
    idx,
    disk,             \* part number -> file written to tmp_dir
    part_clips,       \* the loaded parts
    part_open,        \* positions of part_clips whose handle is open
    final,            \* the concatenation of part_clips
    output,           \* the file at output_path
    k,                \* position of the clean-up loops
    remove_tried,     \* positions of temp_paths whose removal was attempted
    close_tried,      \* positions of part_clips whose close was attempted
    open,             \* scene units created and not closed
    now,              \* the last reading of int(time.time())
    tts_files,        \* second -> the text narrated in tts_<second>.mp3
    handed,           \* the scene_assets of each render_scene call
    result,           \* the value returned
    error             \* the exception that ended the run

vars == <<mode, pc, script, images, videos, override, scenes, scene_clips, clips,
          chunk_seconds, n, current, current_duration, temp_paths, idx, disk,
          part_clips, part_open, final, output, k, remove_tried, close_tried,
          open, now, tts_files, handed, result, error>>

inputs == <<mode, script, images, videos, override, chunk_seconds>>
exporter == <<n, current, current_duration, temp_paths, idx, disk>>
merge == <<part_clips, part_open, final, output>>
cleanup == <<k, remove_tried, close_tried>>
render_env == <<now, tts_files, handed>>

\* ------------------------------------------------------------------- inputs
\* Scripts of the runs that go through the exporter.
RunScripts == SeqsUpTo(Tokens, MaxRunLen)

\* Scripts of the runs followed up to the last render, and one of three scenes.
ThreeScenes == <<WORD, NL, NL, WORD, NL, NL, WORD>>
Scripts == SeqsUpTo(Tokens, MaxScriptLen) \cup {ThreeScenes}

PNG == Image(".png")
JPG == Image(".jpg")
TXT == Image(".txt")
MP4 == Video(".mp4", 300)
MOV == Video(".mov", 1000)
WEBM == Video(".webm", 5)
ImagePools == {<<>>, <<PNG>>}
VideoPools == {<<>>, <<MP4>>}
ScenePools == {<<<<>>, <<>>>>, <<<<PNG>>, <<>>>>, <<<<>>, <<MP4, MOV>>>>,
               <<<<PNG, JPG>>, <<MP4>>>>, <<<<PNG, JPG>>, <<MP4, MOV>>>>,
               <<<<TXT>>, <<WEBM>>>>}

\* The scene_assets of a direct render_scene call.
SceneAssetLists == SeqsUpTo({PNG, TXT, MP4, MOV, WEBM}, 2)

\* Lengths of the synthesized narration.
AudioLens == {2, 9}

\* duration_override of a direct render_scene call (0: not given).
Overrides == {0, 3, 7}

\* Scene units handed to a direct exporter call, and its ceilings.
ExportDurations == {250, 600}
Ceilings == {DEFAULT_CHUNK_SECONDS, 500}
Unit(d) ==
    [duration |-> d, audio |-> d, audio_path |-> 0, source |-> "fill",
     visual |-> d, loops |-> 0, footage |-> 100 * d]
FiveUnits == [i \in 1..5 |-> Unit(250)]
ExportInputs ==
    {[i \in 1..Len(ds) |-> Unit(ds[i])] : ds \in SeqsUpTo(ExportDurations, MaxClips)}
    \cup {FiveUnits}

NoFile == [state |-> "none", content |-> <<>>, duration |-> 0]
NoError == [kind |-> "none", at |-> "none"]
NoDisk == [p \in {} |-> NoFile]
NoTts == [p \in {} |-> <<>>]

\* Whole seconds between two readings of the clock: none, or some.
Elapsed == {0, 1}

InitCommon ==
    /\ scenes = <<>>
    /\ scene_clips = <<>>
    /\ n = 0
    /\ current = <<>>
    /\ current_duration = 0
    /\ temp_paths = <<>>
    /\ idx = 0
    /\ disk = NoDisk
    /\ part_clips = <<>>
    /\ part_open = {}
    /\ final = [content |-> <<>>, duration |-> 0]
    /\ output = NoFile
    /\ k = 0
    /\ remove_tried = {}
    /\ close_tried = {}
    /\ result = "none"
    /\ error = NoError
    /\ now = 0
    /\ tts_files = NoTts
    /\ handed = <<>>

\* generate_movie_from_script(script, output_path, images, clips)
InitMovie ==
    /\ mode = "movie"
    /\ pc = "parse"
    /\ script \in RunScripts
    /\ images \in ImagePools
    /\ videos \in VideoPools
    /\ override = 0
    /\ clips = <<>>
    /\ chunk_seconds = DEFAULT_CHUNK_SECONDS
    /\ open = {}

\* generate_movie_from_script, followed up to its last render_scene call.
InitScenes ==
    /\ mode = "movie"
    /\ pc = "parse"
    /\ script \in Scripts
    /\ \E pools \in ScenePools : images = pools[1] /\ videos = pools[2]
    /\ override = 0
    /\ clips = <<>>
    /\ chunk_seconds = DEFAULT_CHUNK_SECONDS
    /\ open = {}

\* chunked_export_and_concatenate(clips, output_path, chunk_seconds=...)
InitExport ==
    /\ mode = "export"
    /\ pc = "export_loop"
    /\ script = <<>>
    /\ images = <<>>
    /\ videos = <<>>
    /\ override = 0
    /\ clips \in ExportInputs
    /\ chunk_seconds \in Ceilings
    /\ open = 1..Len(clips)

\* render_scene(scene_text, scene_assets, voice_profile, duration_override)
InitRender ==
    /\ mode = "render"
    /\ pc = "render"
    /\ script \in SeqsUpTo(Tokens, MaxTextLen)
    /\ images \in ImagePools
    /\ videos \in VideoPools
    /\ override \in Overrides
    /\ clips = <<>>
    /\ chunk_seconds = DEFAULT_CHUNK_SECONDS
    /\ open = {}

\* render_scene(scene_text, scene_assets, ...) on any short list of assets
\* (held in images).
InitRenderCall ==
    /\ mode = "render"
    /\ pc = "render"
    /\ script \in SeqsUpTo(Tokens, MaxTextLen)
    /\ images \in SceneAssetLists
    /\ videos = <<>>
    /\ override \in Overrides
    /\ clips = <<>>
    /\ chunk_seconds = DEFAULT_CHUNK_SECONDS
    /\ open = {}

Init == InitCommon /\ (InitMovie \/ InitExport \/ InitRender)

InitRenders == InitCommon /\ (InitScenes \/ InitRenderCall)

\* ------------------------------------------------ generate_movie_from_script
Fail(kind) ==
    /\ pc' = "failed"
    /\ error' = [kind |-> kind, at |-> pc]

\* scenes = parse_script_to_scenes(script)
Parse ==
    /\ mode = "movie"
    /\ pc = "parse"
    /\ scenes' = parse_script_to_scenes(script)
    /\ pc' = "render"
    /\ UNCHANGED <<inputs, render_env, scene_clips, clips, exporter, merge, cleanup, open,
                   result, error>>

\* What a render can end in: the unit, a narration failure, or (when an asset
\* is read) an asset failure.
RenderOutcomes(assets) ==
    {"ok", "SynthesisError"}
    \cup (IF PickAsset(assets) # 0 THEN {"AssetIOError"} ELSE {})

\* synthesize_voice(scene_text, out_path=audio_path): tts.save overwrites.
SaveTts(files, path, text) ==
    [p \in DOMAIN files \cup {path} |-> IF p = path THEN text ELSE files[p]]

\* One iteration of the orchestrator's loop over the scenes.
RenderScene ==
    /\ mode = "movie"
    /\ pc = "render"
    /\ Len(scene_clips) < Len(scenes)
    /\ LET i == Len(scene_clips)
           s == scenes[i + 1]
           assets_for_scene == AssetsForScene(i, images, videos)
       IN \E outcome \in RenderOutcomes(assets_for_scene), audio_len \in AudioLens,
             elapsed \in Elapsed :
            /\ now' = now + elapsed
            /\ handed' = Append(handed, assets_for_scene)
            /\ IF outcome = "SynthesisError"
               THEN UNCHANGED tts_files
               ELSE tts_files' = SaveTts(tts_files, now', s.text)
            /\ IF outcome = "ok"
               THEN /\ scene_clips' = Append(scene_clips,
                           render_scene(s.text, assets_for_scene, s.duration,
                                        audio_len, now'))
                    /\ open' = open \cup {i + 1}
                    /\ UNCHANGED <<pc, error>>
               ELSE /\ audio_len = CHOOSE a \in AudioLens : TRUE
                    /\ Fail(outcome)
                    /\ UNCHANGED <<scene_clips, open>>
    /\ UNCHANGED <<inputs, scenes, clips, exporter, merge, cleanup, result>>

\* A direct call of render_scene(script, images \o videos, ..., override).
RenderDirect ==
    /\ mode = "render"
    /\ pc = "render"
    /\ LET scene_assets == images \o videos
       IN \E outcome \in RenderOutcomes(scene_assets), audio_len \in AudioLens,
             elapsed \in Elapsed :
            /\ now' = now + elapsed
            /\ handed' = Append(handed, scene_assets)
            /\ IF outcome = "SynthesisError"
               THEN UNCHANGED tts_files
               ELSE tts_files' = SaveTts(tts_files, now', script)
            /\ IF outcome = "ok"
               THEN /\ scene_clips' = <<render_scene(script, scene_assets, override,
                                                     audio_len, now')>>
                    /\ open' = {1}
                    /\ pc' = "done"
                    /\ result' = "clip"
                    /\ UNCHANGED error
               ELSE /\ audio_len = CHOOSE a \in AudioLens : TRUE
                    /\ Fail(outcome)
                    /\ UNCHANGED <<scene_clips, open, result>>
    /\ UNCHANGED <<inputs, scenes, clips, exporter, merge, cleanup>>

\* final = chunked_export_and_concatenate(scene_clips, output_path)
CallExporter ==
    /\ mode = "movie"
    /\ pc = "render"
    /\ Len(scene_clips) = Len(scenes)
    /\ clips' = scene_clips
    /\ pc' = "export_loop"
    /\ UNCHANGED <<inputs, render_env, scenes, scene_clips, exporter, merge, cleanup, open,
                   result, error>>

\* The outcomes of a write_videofile call: the file is written, or the call
\* raises having written nothing or a part of the file.
WriteOutcomes == {"complete", "none", "partial"}

\* for cc in current: cc.close()
Released(group) == Range(group)

\* One iteration of `for c in clips`.
ExportStep ==
    /\ pc = "export_loop"
    /\ n < Len(clips)
    /\ LET c == n + 1
           dur == clips[c].duration
       IN IF NeedsFlush(current_duration, dur, chunk_seconds, current)
          THEN \E w \in WriteOutcomes :
                 /\ disk' = IF w = "none" THEN disk
                            ELSE WriteFile(disk, idx, PartFile(clips, current, w))
                 /\ IF w = "complete"
                    THEN /\ temp_paths' = Append(temp_paths, idx)
                         /\ idx' = NextIdx(idx)
                         /\ open' = open \ Released(current)
                         /\ current' = <<c>>
                         /\ current_duration' = dur
                         /\ n' = n + 1
                         /\ UNCHANGED <<pc, error>>
                    ELSE /\ Fail("EncodeError")
                         /\ UNCHANGED <<temp_paths, idx, open, current,
                                        current_duration, n>>
          ELSE /\ current' = Append(current, c)
               /\ current_duration' = current_duration + dur
               /\ n' = n + 1
               /\ UNCHANGED <<pc, error, disk, temp_paths, idx, open>>
    /\ UNCHANGED <<inputs, render_env, scenes, scene_clips, clips, merge, cleanup, result>>

\* if current: write part_{idx} (the last group's units are not closed here).
FlushFinal ==
    /\ pc = "export_loop"
    /\ n = Len(clips)
    /\ IF current # <<>>
       THEN \E w \in WriteOutcomes :
              /\ disk' = IF w = "none" THEN disk
                         ELSE WriteFile(disk, idx, PartFile(clips, current, w))
              /\ IF w = "complete"
                 THEN /\ temp_paths' = Append(temp_paths, idx)
                      /\ pc' = "load_parts"
                      /\ UNCHANGED error
                 ELSE /\ Fail("EncodeError")
                      /\ UNCHANGED temp_paths
       ELSE /\ pc' = "load_parts"
            /\ UNCHANGED <<disk, temp_paths, error>>
    /\ UNCHANGED <<inputs, render_env, scenes, scene_clips, clips, n, current, current_duration,
                   idx, merge, cleanup, open, result>>

\* VideoFileClip(p): a handle on what is at p.
Handle(p) == [path |-> p, content |-> disk[p].content, duration |-> disk[p].duration]

\* part_clips = [VideoFileClip(p) for p in temp_paths]
LoadParts ==
    /\ pc = "load_parts"
    /\ \E m \in 0..Len(temp_paths) :
         /\ part_clips' = [j \in 1..m |-> Handle(temp_paths[j])]
         /\ part_open' = 1..m
         /\ IF m = Len(temp_paths)
            THEN pc' = "concatenate" /\ UNCHANGED error
            ELSE Fail("AssetIOError")
    /\ UNCHANGED <<inputs, render_env, scenes, scene_clips, clips, exporter, final, output,
                   cleanup, open, result>>

\* final = concatenate_videoclips(part_clips): raises on an empty list.
ConcatenateParts ==
    /\ pc = "concatenate"
    /\ IF part_clips = <<>>
       THEN Fail("ValueError") /\ UNCHANGED final
       ELSE /\ final' = Concatenate(part_clips)
            /\ pc' = "write_final"
            /\ UNCHANGED error
    /\ UNCHANGED <<inputs, render_env, scenes, scene_clips, clips, exporter, part_clips,
                   part_open, output, cleanup, open, result>>

\* final.write_videofile(output_path, ...)
WriteFinal ==
    /\ pc = "write_final"
    /\ \E w \in WriteOutcomes :
         /\ output' = IF w = "none" THEN output
                      ELSE [state |-> w, content |-> final.content,
                            duration |-> final.duration]
         /\ IF w = "complete"
            THEN pc' = "remove_temp" /\ UNCHANGED error
            ELSE Fail("EncodeError")
    /\ UNCHANGED <<inputs, render_env, scenes, scene_clips, clips, exporter, part_clips,
                   part_open, final, cleanup, open, result>>

\* A fault variant: a failed removal or close is raised to the caller.
Swallow_raise(next_pc) == Fail("ResourceCleanupError")

\* except: pass
Swallow(next_pc) == pc' = next_pc /\ UNCHANGED error

\* One iteration of `for p in temp_paths: os.remove(p)`.
RemoveTemp ==
    /\ pc = "remove_temp"
    /\ k < Len(temp_paths)
    /\ LET last == (k + 1 = Len(temp_paths))
           next_pc == IF last THEN "close_parts" ELSE pc
       IN /\ remove_tried' = remove_tried \cup {k + 1}
          /\ k' = IF last THEN 0 ELSE k + 1
          /\ \E removed \in BOOLEAN :
               IF removed
               THEN /\ disk' = RemoveFile(disk, temp_paths[k + 1])
                    /\ pc' = next_pc
                    /\ UNCHANGED error
               ELSE /\ UNCHANGED disk
                    /\ Swallow(next_pc)
    /\ UNCHANGED <<inputs, render_env, scenes, scene_clips, clips, n, current, current_duration,
                   temp_paths, idx, merge, close_tried, open, result>>

\* One iteration of `for pc in part_clips: pc.close()`; after the last one the
\* exporter returns output_path.
ClosePart ==
    /\ pc = "close_parts"
    /\ k < Len(part_clips)
    /\ LET last == (k + 1 = Len(part_clips))
           next_pc == IF last THEN (IF mode = "movie" THEN "close_clips" ELSE "done")
                      ELSE pc
       IN /\ close_tried' = close_tried \cup {k + 1}
          /\ k' = k + 1
          /\ result' = IF last THEN "output_path" ELSE result
          /\ \E closed \in BOOLEAN :
               IF closed
               THEN /\ part_open' = part_open \ {k + 1}
                    /\ pc' = next_pc
                    /\ UNCHANGED error
               ELSE /\ UNCHANGED part_open
                    /\ Swallow(next_pc)
    /\ UNCHANGED <<inputs, render_env, scenes, scene_clips, clips, exporter, part_clips, final,
                   output, remove_tried, open>>

\* for sc in scene_clips: sc.close(); return final
CloseSceneClips ==
    /\ mode = "movie"
    /\ pc = "close_clips"
    /\ open' = open \ (1..Len(scene_clips))
    /\ pc' = "done"
    /\ UNCHANGED <<inputs, render_env, scenes, scene_clips, clips, exporter, merge, cleanup,
                   result, error>>

Next ==
    \/ Parse
    \/ RenderScene
    \/ RenderDirect
    \/ CallExporter
    \/ ExportStep
    \/ FlushFinal
    \/ LoadParts
    \/ ConcatenateParts
    \/ WriteFinal
    \/ RemoveTemp
    \/ ClosePart
    \/ CloseSceneClips

Spec == Init /\ [][Next]_vars

\* The runs up to the last render_scene call, on the wider scripts and assets.
NextRenders ==
    \/ Parse
    \/ RenderScene
    \/ RenderDirect

SpecRenders == InitRenders /\ [][NextRenders]_vars

\* ------------------------------------------------------------- properties
ExporterStages == {"export_loop", "load_parts", "concatenate", "write_final",
                   "remove_temp", "close_parts"}

RECURSIVE SumOpen(_, _)
SumOpen(units, ids) ==
    IF ids = {} THEN 0
    ELSE LET i == CHOOSE j \in ids : TRUE
         IN units[i].duration + SumOpen(units, ids \ {i})

Iota(m) == [i \in 1..m |-> i]

\* C1: every group written by the exporter, the last one included, has a total
\* duration of at most the ceiling, unless it is one unit that is itself longer
\* than the ceiling.
C1_GroupWithinCeiling ==
    \A p \in DOMAIN disk :
        \/ disk[p].duration <= chunk_seconds
        \/ /\ Len(disk[p].content) = 1
           /\ clips[disk[p].content[1]].duration > chunk_seconds

\* Reached: an oversized one-unit group and a group of several units that
\* fills the ceiling exactly are on disk together.
C1_Witness ==
    \E p, q \in DOMAIN disk :
        /\ disk[p].state = "complete" /\ disk[q].state = "complete"
        /\ Len(disk[p].content) = 1 /\ disk[p].duration > chunk_seconds
        /\ Len(disk[q].content) >= 2 /\ disk[q].duration = chunk_seconds

\* C2: the parts are numbered 0, 1, 2, ... in flush order and loaded and merged
\* in that order, and the written output holds every input unit exactly once,
\* in the input's order.
C2_OrderPreserved ==
    /\ temp_paths = [j \in 1..Len(temp_paths) |-> j - 1]
    /\ \A j \in 1..Len(part_clips) : part_clips[j].path = temp_paths[j]
    /\ pc = "write_final" => final.content = Iota(Len(clips))
    /\ output.state = "complete" => output.content = Iota(Len(clips))

\* Reached: an output merged from three parts, one of them of several units.
C2_Witness ==
    /\ output.state = "complete"
    /\ Len(part_clips) >= 3
    /\ Len(clips) > Len(part_clips)

\* C3: the exporter closes the group before taking unit c exactly when the
\* group is non-empty and accumulated + c.duration > ceiling; otherwise c joins
\* the group; no written group is empty; five units of 250 s under a ceiling
\* of 900 s give the groups 1-3 (750 s) and 4-5 (500 s).
C3_Step ==
    /\ (pc = "export_loop" /\ n < Len(clips) /\ pc' = "export_loop") =>
         LET c == n + 1
             over == current # <<>> /\ current_duration + clips[c].duration > chunk_seconds
         IN IF over
            THEN /\ temp_paths' = Append(temp_paths, idx)
                 /\ disk'[idx].content = current
                 /\ current' = <<c>>
            ELSE /\ temp_paths' = temp_paths
                 /\ disk' = disk
                 /\ current' = Append(current, c)
    /\ \A p \in DOMAIN disk' : disk'[p].content # <<>>
    /\ (clips = FiveUnits /\ chunk_seconds = 900 /\ pc' = "load_parts") =>
         /\ temp_paths' = <<0, 1>>
         /\ disk'[0].content = <<1, 2, 3>> /\ disk'[0].duration = 750
         /\ disk'[1].content = <<4, 5>> /\ disk'[1].duration = 500

C3_FlushExactlyWhenOver == [][C3_Step]_vars

\* Reached: the five 250 s units under the 900 s ceiling, both groups written.
C3_Witness ==
    /\ clips = FiveUnits /\ chunk_seconds = 900
    /\ pc = "load_parts"
    /\ Len(temp_paths) = 2

\* C4: in a movie run every scene unit that was created is closed once the
\* exporter has completed, whether it returned or raised.
C4_UnitsReleasedAfterExporter ==
    (mode = "movie" /\ (pc = "done" \/ (pc = "failed" /\ error.at \in ExporterStages)))
        => open = {}

\* C5: a run that ends in failure has written nothing, whole or partial, to
\* the output path.
C5_NoOutputOnFailure ==
    pc = "failed" => output.state = "none"

\* C6: once the output is written, the removal of every part and the close of
\* every part handle is attempted, no failure among them ends the run, and
\* the output path is returned.
C6_CleanupNeverEscalates ==
    /\ pc = "failed" => error.at \notin {"remove_temp", "close_parts"}
    /\ pc = "remove_temp" => k < Len(temp_paths) /\ remove_tried = 1..k
    /\ pc = "close_parts" =>
         /\ k < Len(part_clips)
         /\ remove_tried = 1..Len(temp_paths)
         /\ close_tried = 1..k
    /\ result = "output_path" =>
         /\ output.state = "complete"
         /\ remove_tried = 1..Len(temp_paths)
         /\ close_tried = 1..Len(part_clips)
    /\ (output.state = "complete" /\ pc \in {"close_clips", "done"}) =>
         result = "output_path"

\* Reached: the exporter returned although the first part could not be
\* removed and a handle could not be closed, the later part having been removed.
C6_Witness ==
    /\ result = "output_path"
    /\ Len(temp_paths) >= 2
    /\ temp_paths[1] \in DOMAIN disk
    /\ temp_paths[2] \notin DOMAIN disk
    /\ 1 \in part_open
    /\ 2 \notin part_open

\* C7: a script without scenes ends as a no-op or an InputError: nothing is
\* flushed and the exporter does not reach the merge with no parts.
C7_EmptyScriptIsNoOp ==
    (mode = "movie" /\ pc # "parse" /\ scenes = <<>>) =>
        /\ temp_paths = <<>>
        /\ pc \notin {"concatenate", "write_final"}
        /\ pc = "failed" => error.kind = "InputError"

\* C8: at every point of a movie run the open scene units are one group's
\* worth: their total duration is at most the ceiling, or there is one of them.
C8_OpenUnitsWithinOneChunk ==
    mode = "movie" =>
        \/ SumOpen(scene_clips, open) <= chunk_seconds
        \/ Cardinality(open) <= 1

\* C9: a rendered unit's duration is the override when given, else the
\* word-count estimate, whatever its audio and visual tracks; the written
\* output lasts the sum of the scenes' durations.
C9_DurationAuthoritative ==
    /\ (mode = "render" /\ pc = "done") =>
         scene_clips[1].duration =
            IF override # 0 THEN override ELSE EstimateSeconds(Words(script))
    /\ mode = "movie" =>
         \A i \in 1..Len(scene_clips) : scene_clips[i].duration = scenes[i].duration
    /\ (mode = "movie" /\ output.state = "complete") =>
         output.duration = SumOpen(scenes, 1..Len(scenes))

\* Reached: a written movie of two scenes, one on a looped video with a
\* narration longer than the scene, the other with a shorter narration.
C9_Witness ==
    /\ mode = "movie"
    /\ output.state = "complete"
    /\ Len(scenes) = 2
    /\ \E i, j \in 1..2 :
         /\ scene_clips[i].source = "video" /\ scene_clips[i].loops > 1
         /\ scene_clips[i].audio > scene_clips[i].duration
         /\ scene_clips[j].audio < scene_clips[j].duration

\* The paragraphs of a script, read off the text: a cut is a pair of newlines
\* that starts an even number of newlines into its run of newlines.
NewlinesBefore(s, i) ==
    CHOOSE j \in 0..(i - 1) :
        /\ \A m \in (i - j)..(i - 1) : s[m] = NL
        /\ j = i - 1 \/ s[i - j - 1] # NL

Cuts(s) ==
    {i \in 1..(Len(s) - 1) :
        s[i] = NL /\ s[i + 1] = NL /\ NewlinesBefore(s, i) % 2 = 0}

ParagraphStarts(s) == {1} \cup {i + 2 : i \in Cuts(s)}

ParagraphEnd(s, a) ==
    LET later == {c \in Cuts(s) : c >= a}
    IN IF later = {} THEN Len(s)
       ELSE (CHOOSE c \in later : \A d \in later : c <= d) - 1

\* The positions of a paragraph that hold no whitespace.
Inked(s, a) == {i \in a..ParagraphEnd(s, a) : ~IsSpace(s[i])}

WrittenStarts(s) == {a \in ParagraphStarts(s) : Inked(s, a) # {}}

Least(S) == CHOOSE x \in S : \A y \in S : x <= y
Greatest(S) == CHOOSE x \in S : \A y \in S : x >= y

C11_ExactQuotient ==
    (mode = "movie" /\ pc # "parse") =>
        \A i \in 1..Len(scenes) :
            5 * scenes[i].duration = Max(20, 2 * Words(scenes[i].text))

\* C11 as amended: a scene of w words lasts max(4, floor(w / 2.5)) seconds:
\* the whole number d with 5 * d <= max(20, 2 * w) < 5 * d + 5.
C11_TruncatedQuotient ==
    (mode = "movie" /\ pc # "parse") =>
        \A i \in 1..Len(scenes) :
            LET d == scenes[i].duration
                w == Words(scenes[i].text)
            IN /\ 5 * d <= Max(20, 2 * w)
               /\ Max(20, 2 * w) < 5 * d + 5

\* Reached: a scene longer than the floor whose w / 2.5 is not whole.
C11_Witness ==
    /\ mode = "movie" /\ pc # "parse"
    /\ \E i \in 1..Len(scenes) :
         /\ scenes[i].duration > MIN_SECONDS
         /\ (2 * Words(scenes[i].text)) % 5 # 0

\* The asset a pool gives scene i (counted from 0): the one at the position
\* congruent to i modulo the pool's length.
PoolShare(pool, i) ==
    IF pool = <<>> THEN <<>>
    ELSE <<pool[CHOOSE j \in 1..Len(pool) : (i - (j - 1)) % Len(pool) = 0]>>

\* C12: scene i is rendered with image_pool[i mod len] when the image pool is
\* not empty and video_pool[i mod len] when the video pool is not empty, the
\* image first; an empty pool gives nothing; the pools are never changed.
C12_Step ==
    /\ images' = images
    /\ videos' = videos
    /\ (mode = "movie" /\ handed' # handed) =>
         /\ Len(handed') = Len(handed) + 1
         /\ handed'[Len(handed')] =
              PoolShare(images, Len(handed)) \o PoolShare(videos, Len(handed))

C12_RoundRobin == [][C12_Step]_vars

\* Reached: a third scene rendered from pools of two images and two videos,
\* so that it gets the first image and the first video again.
C12_Witness ==
    /\ mode = "movie"
    /\ Len(images) = 2 /\ Len(videos) = 2
    /\ Len(handed) = 3
    /\ handed[3] = <<images[1], videos[1]>>
    /\ handed[2] = <<images[2], videos[2]>>

HasKind(assets, exts) == \E j \in 1..Len(assets) : assets[j].ext \in exts

\* C13: a scene with an image asset is shown by that image, also when it has
\* a video asset; a video asset is used only without an image asset; the
\* solid fill only with neither.
C13_ImageBeforeVideo ==
    \A i \in 1..Len(scene_clips) :
        LET image == HasKind(handed[i], IMAGE_EXTS)
            video == HasKind(handed[i], VIDEO_EXTS)
        IN scene_clips[i].source =
             IF image THEN "image" ELSE IF video THEN "video" ELSE "fill"

\* C14: a video of native duration n > 0 in a scene of t seconds is cut to its
\* first t seconds when n >= t, and otherwise repeated ceil(t / n) times, which
\* covers t, and then cut to t (n in hundredths of a second).
C14_LoopCoversTarget ==
    \A i \in 1..Len(scene_clips) :
        scene_clips[i].source = "video" =>
            LET nat == handed[i][FirstUsable(handed[i], 1)].native
                t == 100 * scene_clips[i].duration
                unit == scene_clips[i]
            IN /\ nat > 0
               /\ unit.visual = unit.duration
               /\ unit.footage >= t
               /\ IF nat >= t THEN unit.loops = 1
                  ELSE unit.loops * nat >= t /\ (unit.loops - 1) * nat < t

\* The first unit of the group unit i falls in, read off the durations: a unit
\* opens a group when the units since the last opening, with it, pass the ceiling.
RECURSIVE IntervalSum(_, _, _)
IntervalSum(units, a, b) ==
    IF a > b THEN 0 ELSE units[a].duration + IntervalSum(units, a + 1, b)

RECURSIVE GroupStart(_, _, _)
GroupStart(units, ceiling, i) ==
    IF i = 1 THEN 1
    ELSE LET g == GroupStart(units, ceiling, i - 1)
         IN IF IntervalSum(units, g, i) > ceiling THEN i ELSE g

GroupStarts(units, ceiling) == {GroupStart(units, ceiling, i) : i \in 1..Len(units)}

\* The j-th group that was written.
GroupOf(j) ==
    IF temp_paths[j] \in DOMAIN disk THEN disk[temp_paths[j]].content
    ELSE part_clips[j].content

\* C15: the groups are a function of the durations and the ceiling alone, so
\* two exports of one sequence under one ceiling cut it alike and give outputs
\* of equal total duration: the running group is the units from its computed
\* start, the written groups start at the computed starts, and the output
\* lasts the sum of the durations.
C15_GroupingIsAFunction ==
    /\ (pc = "export_loop" /\ n >= 1) =>
         /\ current = [j \in 1..(n + 1 - GroupStart(clips, chunk_seconds, n)) |->
                          GroupStart(clips, chunk_seconds, n) + j - 1]
         /\ current_duration =
              IntervalSum(clips, GroupStart(clips, chunk_seconds, n), n)
    /\ \A j \in 1..Len(temp_paths) :
         /\ GroupOf(j)[1] \in GroupStarts(clips, chunk_seconds)
         /\ \A m \in 2..Len(GroupOf(j)) :
              GroupOf(j)[m] \notin GroupStarts(clips, chunk_seconds)
    /\ pc \in {"load_parts", "concatenate", "write_final"} =>
         Len(temp_paths) = Cardinality(GroupStarts(clips, chunk_seconds))
    /\ output.state = "complete" =>
         output.duration = IntervalSum(clips, 1, Len(clips))

\* Reached: an output of three groups, cut at the computed starts 1, 3 and 4.
C15_Witness ==
    /\ output.state = "complete"
    /\ GroupStarts(clips, chunk_seconds) = {1, 3, 4}
    /\ Len(temp_paths) = 3

WrittenUnits ==
    UNION {Range(disk[p].content) : p \in {q \in DOMAIN disk : disk[q].state = "complete"}}
    \cup UNION {Range(part_clips[j].content) : j \in 1..Len(part_clips)}

\* C16: once a group is written, mid-stream or last, its units are closed
\* before the exporter goes on; no unit is closed before its group is written.
C16_GroupReleasedAtFlush ==
    pc \in ExporterStages \cup {"failed", "close_clips", "done"} =>
        /\ \A j \in 1..Len(temp_paths) : Range(GroupOf(j)) \cap open = {}
        /\ pc \in ExporterStages =>
             \A u \in 1..Len(clips) : u \notin open => u \in WrittenUnits

\* C17: the narration file a scene unit's audio is read from holds the
\* narration of that unit's own scene text.
C17_OwnNarration ==
    mode = "movie" =>
        \A i \in 1..Len(scene_clips) :
            /\ scene_clips[i].audio_path \in DOMAIN tts_files
            /\ tts_files[scene_clips[i].audio_path] = scenes[i].text

\* C18: when the exporter has ended, by returning or by raising, every part it
\* wrote is gone from disk unless its removal was tried and failed.
C18_NoPartLeftBehind ==
    (result = "output_path" \/ (pc = "failed" /\ error.at \in ExporterStages)) =>
        \A p \in DOMAIN disk :
            disk[p].state = "complete" =>
                \E j \in remove_tried : temp_paths[j] = p

====
